---- MODULE Spec2Model ----
(***************************************************************************)
(* A model of rut, a reimplementation of cut(1): the range-list parser     *)
(* (src/src/range/parse.rs), the merged Ranges and their complement        *)
(* (src/src/range/mod.rs) and the selection of elements by Ranges          *)
(* (src/src/cut.rs).                                                       *)
(*                                                                         *)
(* The functions of the program are pure; each is an operator computed the *)
(* way the code computes it, and each specification draws the inputs of    *)
(* the functions from bounded sets and applies them.  The streaming loops  *)
(* of src/src/cut.rs and the loop over the files of src/src/main.rs are    *)
(* actions, one step of a loop each.                                       *)
(***************************************************************************)
EXTENDS Integers, Sequences, FiniteSets, TLC

VARIABLES
    pc,        \* where the run stands: "cuts", "ranges", "selected", "text", "parsed"
    cuts,      \* the Vec<CutRange> that parse_tokens hands to from_ranges
    ranges,    \* the current Ranges (its Vec<MergedRange>)
    hist,      \* the Ranges consumed by each complement() so far, oldest first
    xs,        \* the elements of the line handed to select
    selected,  \* what select returned
    text,      \* the range-list text handed to parse
    result,    \* what parse returned
    matches,   \* the command line as clap hands it to parse_args
    args,      \* Args: mode_args (but for its Ranges), line_delimiter, filenames
    files,     \* what each file name opened so far has opened to
    pos,       \* the number of bytes read from the file that is open
    writer,    \* the bytes held by the BufWriter of the running cut function
    stdout,    \* the bytes written to standard output
    log,       \* one record for each chunk the streaming loops have read
    io_result, \* what the cut function returned for the file
    error,     \* the error flag of for_each_file
    exit_code, \* the exit code of the process
    buffer,    \* buf, the Vec<u8> of the running cut function
    iter,      \* a RangeFilterIterator
    collected, \* the items that the calls of its next() have returned
    operands,  \* three MergedRanges
    ordering   \* what cmp and eq return for them, two by two

runVars ==
    <<matches, args, files, pos, writer, stdout, log, io_result, error, exit_code, buffer>>

filterVars == <<iter, collected>>

cmpVars == <<operands, ordering>>

vars ==
    <<pc, cuts, ranges, hist, xs, selected, text, result, runVars, filterVars, cmpVars>>

(***************************************************************************)
(* Bounds.  usize is scaled down to 0..UsizeMax.                           *)
(***************************************************************************)
UsizeMax == 3
MaxCuts == 3
MaxComplements == 2
MaxLen == 4
MaxText == 5
MaxNumber == 12
MaxStream == 3
MaxArg == 2
MaxFiles == 2

Usize == 0..UsizeMax

\* The largest bound parse_range can produce: n - 1 for a Number(n), n <= usize::MAX.
MaxIdxUnshifted == UsizeMax
MaxIdx == UsizeMax - 1

Max(a, b) == IF a >= b THEN a ELSE b
Min(a, b) == IF a <= b THEN a ELSE b

\* usize + 1: wraps in a release build (a debug build panics instead);
\* WouldOverflow tells the two apart.
Add1(x) == (x + 1) % (UsizeMax + 1)
WouldOverflow(x) == x + 1 > UsizeMax

(***************************************************************************)
(* CutRange and MergedRange                                                *)
(***************************************************************************)
Unit(n) == [tag |-> "Unit", n |-> n]
CutClosed(s, e) == [tag |-> "Closed", start |-> s, end |-> e]
FromStart(e) == [tag |-> "FromStart", end |-> e]
CutToEnd(s) == [tag |-> "ToEnd", start |-> s]

Closed(s, e) == [tag |-> "Closed", start |-> s, end |-> e]
ToEnd(s) == [tag |-> "ToEnd", start |-> s]

\* impl From<&CutRange> for MergedRange
FromCutRange(cr) ==
    CASE cr.tag = "FromStart" -> Closed(0, cr.end)
      [] cr.tag = "Unit" -> Closed(cr.n, cr.n)
      [] cr.tag = "ToEnd" -> ToEnd(cr.start)
      [] cr.tag = "Closed" -> Closed(cr.start, cr.end)

\* usize::cmp
CmpUsize(a, b) == IF a < b THEN "Less" ELSE IF a = b THEN "Equal" ELSE "Greater"

\* Ordering::then
Then(o1, o2) == IF o1 = "Equal" THEN o2 ELSE o1

\* impl PartialEq for MergedRange
Eq(a, b) ==
    CASE a.tag = "ToEnd" /\ b.tag = "ToEnd" -> a.start = b.start
      [] a.tag = "Closed" /\ b.tag = "Closed" -> a.start = b.start /\ a.end = b.end
      [] OTHER -> FALSE

\* impl Ord for MergedRange
CmpByStart(a, b) == CmpUsize(a.start, b.start)
Cmp(a, b) ==
    CASE a.tag = "ToEnd" /\ b.tag = "ToEnd" -> CmpUsize(a.start, b.start)
      [] a.tag = "Closed" /\ b.tag = "Closed" ->
            Then(CmpUsize(a.start, b.start), CmpUsize(a.end, b.end))
      [] a.tag = "ToEnd" /\ b.tag = "Closed" -> Then(CmpUsize(a.start, b.start), "Greater")
      [] a.tag = "Closed" /\ b.tag = "ToEnd" -> Then(CmpUsize(a.start, b.start), "Less")

\* Vec::sort with the order above: a stable sort, here by insertion.
RECURSIVE Insert(_, _)
Insert(r, s) ==
    IF s = <<>> THEN <<r>>
    ELSE IF Cmp(r, Head(s)) = "Less" THEN <<r>> \o s
    ELSE <<Head(s)>> \o Insert(r, Tail(s))

RECURSIVE Sort(_)
Sort(s) == IF s = <<>> THEN <<>> ELSE Insert(s[Len(s)], Sort(SubSeq(s, 1, Len(s) - 1)))

\* from_ranges: *s2 <= e1 + 1, "ranges overlap or touch"
TouchesNoPlusOne(e1, s2) == s2 <= e1
Touches(e1, s2) == s2 <= Add1(e1)

\* from_ranges: std::cmp::max(e1, *e2), the end of the merged chain
MergedEndLast(e1, e2) == e2
MergedEnd(e1, e2) == Max(e1, e2)

\* The merge loop of from_ranges: next is sorted[i], chain is merge_chain.
RECURSIVE MergeLoop(_, _, _, _)
MergeLoop(sorted, i, chain, acc) ==
    IF i > Len(sorted) THEN acc \o <<chain>>
    ELSE LET next == sorted[i] IN
         CASE chain.tag = "ToEnd" -> acc \o <<chain>>
           [] chain.tag = "Closed" /\ next.tag = "ToEnd" ->
                IF Touches(chain.end, next.start)
                THEN acc \o <<ToEnd(chain.start)>>
                ELSE acc \o <<chain, next>>
           [] chain.tag = "Closed" /\ next.tag = "Closed" ->
                IF Touches(chain.end, next.start)
                THEN MergeLoop(sorted, i + 1,
                               Closed(chain.start, MergedEnd(chain.end, next.end)), acc)
                ELSE MergeLoop(sorted, i + 1, next, acc \o <<chain>>)

\* Ranges::from_ranges
FromRangesOf(crs) ==
    IF crs = <<>> THEN <<>>
    ELSE LET sorted == Sort([i \in 1..Len(crs) |-> FromCutRange(crs[i])])
         IN MergeLoop(sorted, 2, sorted[1], <<>>)

\* complement: next = end + 1, the first index after a Closed range
NextAfterSameIndex(end) == end
NextAfter(end) == Add1(end)

\* complement: if !open { ranges.push(MergedRange::ToEnd(next)) }
TrailingAlways(open, next, acc) == acc \o <<ToEnd(next)>>
Trailing(open, next, acc) == IF ~open THEN acc \o <<ToEnd(next)>> ELSE acc

\* complement: MergedRange::Closed(next, start - 1), what lies before a range
GapToStart(next, start) == Closed(next, start)
Gap(next, start) == Closed(next, start - 1)

\* The loop of Ranges::complement: state is (next, open, ranges).
RECURSIVE ComplementLoop(_, _, _, _, _)
ComplementLoop(rs, i, next, open, acc) ==
    IF i > Len(rs) THEN Trailing(open, next, acc)
    ELSE LET range == rs[i]
             pushed == IF range.start # 0
                       THEN acc \o <<Gap(next, range.start)>>
                       ELSE acc
         IN IF range.tag = "Closed"
            THEN ComplementLoop(rs, i + 1, NextAfter(range.end), open, pushed)
            ELSE ComplementLoop(rs, i + 1, next, TRUE, pushed)

\* Ranges::complement
ComplementOf(rs) == ComplementLoop(rs, 1, 0, FALSE, <<>>)

(***************************************************************************)
(* select (src/src/cut.rs)                                                 *)
(***************************************************************************)
\* &input[start..end]: panics unless start <= end <= input.len()
SliceOk(input, start, end) == start <= end /\ end <= Len(input)
Slice(input, start, end) == SubSeq(input, start + 1, end)

PanicVec == [kind |-> "panic", out |-> <<>>]
OkVec(v) == [kind |-> "ok", out |-> v]

\* select: std::cmp::min(end + 1, input.len())
SliceEndNoPlusOne(end, len) == Min(end, len)
SliceEnd(end, len) == Min(Add1(end), len)

RECURSIVE SelectLoop(_, _, _, _)
SelectLoop(input, rs, i, acc) ==
    IF i > Len(rs) THEN OkVec(acc)
    ELSE LET range == rs[i] IN
         IF range.start >= Len(input) THEN OkVec(acc)
         ELSE IF range.tag = "Closed"
              THEN LET end == SliceEnd(range.end, Len(input)) IN
                   IF SliceOk(input, range.start, end)
                   THEN SelectLoop(input, rs, i + 1, acc \o Slice(input, range.start, end))
                   ELSE PanicVec
              ELSE SelectLoop(input, rs, i + 1,
                              acc \o Slice(input, range.start, Len(input)))

\* fn select<T: Clone>(input: &[T], ranges: Ranges) -> Vec<T>
SelectOf(input, rs) == SelectLoop(input, rs, 1, <<>>)

(***************************************************************************)
(* The inputs                                                              *)
(***************************************************************************)
\* Every CutRange parse_range can build: bounds n - 1 with 1 <= n <= usize::MAX,
\* a Closed only through IncreasingRange::new (start <= end).
CutRanges ==
    UNION { {Unit(n) : n \in 0..MaxIdx},
            {CutClosed(p[1], p[2]) : p \in {q \in (0..MaxIdx) \X (0..MaxIdx) : q[1] <= q[2]}},
            {FromStart(e) : e \in 0..MaxIdx},
            {CutToEnd(s) : s \in 0..MaxIdx} }

CutLists == UNION {[1..n -> CutRanges] : n \in 0..MaxCuts}

\* A line of n elements, each named by its 0-based position.
Elems(n) == [i \in 1..n |-> i - 1]

NoResult == [kind |-> "none"]

\* The variables of a run of main, where no run of main is under way.
NoRun ==
    /\ matches = NoResult
    /\ args = NoResult
    /\ files = <<>>
    /\ pos = 0
    /\ writer = <<>>
    /\ stdout = <<>>
    /\ log = <<>>
    /\ io_result = NoResult
    /\ error = FALSE
    /\ exit_code = -1
    /\ buffer = <<>>

\* No RangeFilterIterator has been made.
NoFilter == iter = NoResult /\ collected = <<>>

\* No MergedRanges have been compared.
NoCmp == operands = <<>> /\ ordering = NoResult

(***************************************************************************)
(* SpecRanges: from_ranges, complement and select on drawn inputs          *)
(***************************************************************************)
InitRanges ==
    /\ pc = "cuts"
    /\ cuts \in CutLists
    /\ ranges = <<>>
    /\ hist = <<>>
    /\ xs = <<>>
    /\ selected = NoResult
    /\ text = <<>>
    /\ result = NoResult
    /\ NoRun
    /\ NoFilter
    /\ NoCmp

\* parse_tokens: Result::Ok(Ranges::from_ranges(&cut_ranges))
FromRanges ==
    /\ pc = "cuts"
    /\ ranges' = FromRangesOf(cuts)
    /\ pc' = "ranges"
    /\ UNCHANGED <<cuts, hist, xs, selected, text, result, runVars, filterVars, cmpVars>>

\* ranges.complement(): consumes the Ranges and yields a new one.
\* cut_ranges is a local of parse_tokens, gone once parse has returned.
Complement ==
    /\ pc = "ranges"
    /\ Len(hist) < MaxComplements
    /\ hist' = Append(hist, ranges)
    /\ ranges' = ComplementOf(ranges)
    /\ cuts' = <<>>
    /\ UNCHANGED <<pc, xs, selected, text, result, runVars, filterVars, cmpVars>>

\* select(&buf, ranges.clone()) on one line
Select ==
    /\ pc = "ranges"
    /\ \E n \in 0..MaxLen :
         /\ xs' = Elems(n)
         /\ selected' = SelectOf(Elems(n), ranges)
    /\ pc' = "selected"
    /\ cuts' = <<>>
    /\ UNCHANGED <<ranges, hist, text, result, runVars, filterVars, cmpVars>>

NextRanges == FromRanges \/ Complement \/ Select

SpecRanges == InitRanges /\ [][NextRanges]_vars

(***************************************************************************)
(* The range-list parser (src/src/range/parse.rs)                          *)
(***************************************************************************)
\* enum Token
Number(n) == [tok |-> "Number", n |-> n]
Hyphen == [tok |-> "Hyphen"]
Comma == [tok |-> "Comma"]
Blank(ch) == [tok |-> "Blank", ch |-> ch]

\* enum ParseRangesError, enum LexError
NumberedFromZero == [err |-> "NumberedFromZero"]
IndecipherableRange(tokens) == [err |-> "IndecipherableRange", tokens |-> tokens]
DescendingRange == [err |-> "DescendingRange"]
UnexpectedSeparator(t) == [err |-> "UnexpectedSeparator", token |-> t]
LexError(e) == [err |-> "LexError", lex |-> e]
UnrecognizedCharacter(ch) == [lex |-> "UnrecognizedCharacter", ch |-> ch]

\* Result::Ok, Result::Err, and a panic that unwinds out of the call
Ok(v) == [kind |-> "Ok", val |-> v]
Err(e) == [kind |-> "Err", err |-> e]
Panic == [kind |-> "panic"]

\* char::is_digit(10) and the value of a digit
DigitVal == [c \in {"0", "1", "2", "3", "4", "5", "6", "7", "8", "9"} |->
               CASE c = "0" -> 0 [] c = "1" -> 1 [] c = "2" -> 2 [] c = "3" -> 3
                 [] c = "4" -> 4 [] c = "5" -> 5 [] c = "6" -> 6 [] c = "7" -> 7
                 [] c = "8" -> 8 [] c = "9" -> 9]
IsDigit(c) == c \in DOMAIN DigitVal

\* scan_number: the index after the digits that start at s[i]
RECURSIVE DigitsEnd(_, _)
DigitsEnd(s, i) == IF i <= Len(s) /\ IsDigit(s[i]) THEN DigitsEnd(s, i + 1) ELSE i

\* The number that a run of digits writes in base ten.
RECURSIVE DecimalValue(_)
DecimalValue(ds) ==
    IF ds = <<>> THEN 0
    ELSE 10 * DecimalValue(SubSeq(ds, 1, Len(ds) - 1)) + DigitVal[ds[Len(ds)]]

\* number.parse::<usize>(): Err when the value does not fit usize
ParseUsize(ds) ==
    IF DecimalValue(ds) > UsizeMax THEN Err("PosOverflow") ELSE Ok(DecimalValue(ds))

\* scan: Ok(tokens), Err(LexError), or the panic of scan_number's unwrap()
RECURSIVE ScanLoop(_, _, _)
ScanLoop(s, i, tokens) ==
    IF i > Len(s) THEN Ok(tokens)
    ELSE LET ch == s[i] IN
         CASE ch = "-" -> ScanLoop(s, i + 1, Append(tokens, Hyphen))
           [] ch = "," -> ScanLoop(s, i + 1, Append(tokens, Comma))
           [] ch = " " \/ ch = "\t" -> ScanLoop(s, i + 1, Append(tokens, Blank(ch)))
           [] IsDigit(ch) ->
                LET j == DigitsEnd(s, i)
                    number == ParseUsize(SubSeq(s, i, j - 1))
                IN IF number.kind = "Ok"
                   THEN ScanLoop(s, j, Append(tokens, Number(number.val)))
                   ELSE Panic
           [] OTHER -> Err(UnrecognizedCharacter(ch))

Scan(s) == ScanLoop(s, 1, <<>>)

\* parse_range: the index after the hyphens and numbers that start at tokens[i]
RECURSIVE RangeEnd(_, _)
RangeEndOneToken(tokens, i) ==
    IF i <= Len(tokens) /\ tokens[i].tok \in {"Hyphen", "Number"} THEN i + 1 ELSE i
RangeEnd(tokens, i) ==
    IF i <= Len(tokens) /\ tokens[i].tok \in {"Hyphen", "Number"}
    THEN RangeEnd(tokens, i + 1)
    ELSE i

\* parse_range, "n-m": the zero test comes before the test of the order
ClosedRangeZeroBased(start, end) ==
    IF start = 0 \/ end = 0 THEN Err(NumberedFromZero)
    ELSE IF start <= end THEN Ok(CutClosed(start, end))
    ELSE Err(DescendingRange)
ClosedRange(start, end) ==
    IF start = 0 \/ end = 0 THEN Err(NumberedFromZero)
    ELSE IF start <= end THEN Ok(CutClosed(start - 1, end - 1))
    ELSE Err(DescendingRange)

\* parse_range on the collected tokens of one range
ParseRange(range) ==
    CASE Len(range) = 1 ->
           IF range[1].tok = "Number"
           THEN (IF range[1].n = 0 THEN Err(NumberedFromZero) ELSE Ok(Unit(range[1].n - 1)))
           ELSE Err(IndecipherableRange(range))
      [] Len(range) = 2 ->
           IF range[1].tok = "Hyphen" /\ range[2].tok = "Number"
           THEN (IF range[2].n = 0 THEN Err(NumberedFromZero)
                 ELSE Ok(FromStart(range[2].n - 1)))
           ELSE IF range[1].tok = "Number" /\ range[2].tok = "Hyphen"
           THEN (IF range[1].n = 0 THEN Err(NumberedFromZero)
                 ELSE Ok(CutToEnd(range[1].n - 1)))
           ELSE Err(IndecipherableRange(range))
      [] Len(range) = 3 ->
           IF range[1].tok = "Number" /\ range[2].tok = "Hyphen" /\ range[3].tok = "Number"
           THEN ClosedRange(range[1].n, range[3].n)
           ELSE Err(IndecipherableRange(range))
      [] OTHER -> Err(IndecipherableRange(range))

\* What parse_tokens leaves: its result and the cut_ranges it had pushed.
Parsed(res, cut_ranges) == [kind |-> res.kind, res |-> res, cut_ranges |-> cut_ranges]

\* The loop of parse_tokens from tokens[i] on.
RECURSIVE ParseTokensLoop(_, _, _)
ParseTokensLoop(tokens, i, cut_ranges) ==
    LET j == RangeEnd(tokens, i)
        r == ParseRange(SubSeq(tokens, i, j - 1))
    IN IF r.kind = "Err" THEN Parsed(r, cut_ranges)
       ELSE LET pushed == Append(cut_ranges, r.val) IN
            IF j > Len(tokens) THEN Parsed(Ok(FromRangesOf(pushed)), pushed)
            ELSE IF tokens[j].tok \in {"Comma", "Blank"}
                 THEN ParseTokensLoop(tokens, j + 1, pushed)
                 ELSE Parsed(Err(UnexpectedSeparator(tokens[j])), pushed)

ParseTokens(tokens) == ParseTokensLoop(tokens, 1, <<>>)

\* parse: scan, then parse_tokens
ParseOf(s) ==
    LET scanned == Scan(s) IN
    CASE scanned.kind = "Ok" -> ParseTokens(scanned.val)
      [] scanned.kind = "Err" -> Parsed(Err(LexError(scanned.err)), <<>>)
      [] scanned.kind = "panic" -> Parsed(Panic, <<>>)

\* The characters the texts are written in: some digits, the hyphen, the three
\* separators and a character that is none of them.
Alphabet == {"0", "1", "2", "3", "-", ",", " ", "\t", "x"}

Texts == UNION {[1..n -> Alphabet] : n \in 0..MaxText}

(***************************************************************************)
(* SpecParse: parse on drawn texts                                         *)
(***************************************************************************)
InitParse ==
    /\ pc = "text"
    /\ text \in Texts
    /\ cuts = <<>>
    /\ ranges = <<>>
    /\ hist = <<>>
    /\ xs = <<>>
    /\ selected = NoResult
    /\ result = NoResult
    /\ NoRun
    /\ NoFilter
    /\ NoCmp

\* value.parse::<Ranges>(): cuts are the cut_ranges pushed when it returned
Parse ==
    /\ pc = "text"
    /\ LET parsed == ParseOf(text) IN
         /\ result' = parsed.res
         /\ cuts' = parsed.cut_ranges
         /\ ranges' = IF parsed.kind = "Ok" THEN parsed.res.val ELSE <<>>
    /\ pc' = "parsed"
    /\ UNCHANGED <<hist, xs, selected, text, runVars, filterVars, cmpVars>>

NextParse == Parse

SpecParse == InitParse /\ [][NextParse]_vars

(***************************************************************************)
(* What the claims speak of                                                *)
(***************************************************************************)
\* The positions a CutRange stands for.
CutCovers(cr, p) ==
    CASE cr.tag = "Unit" -> p = cr.n
      [] cr.tag = "Closed" -> cr.start <= p /\ p <= cr.end
      [] cr.tag = "FromStart" -> p <= cr.end
      [] cr.tag = "ToEnd" -> p >= cr.start

\* The positions a MergedRange stands for.
RangeCovers(r, p) ==
    IF r.tag = "Closed" THEN r.start <= p /\ p <= r.end ELSE p >= r.start

Covered(rs, p) == \E i \in 1..Len(rs) : RangeCovers(rs[i], p)

\* Sorted by start, maximally merged, a ToEnd only in last place.
WellFormed(rs) ==
    /\ \A i \in 1..Len(rs) : rs[i].tag = "Closed" => rs[i].start <= rs[i].end
    /\ \A i \in 1..(Len(rs) - 1) :
         /\ rs[i].tag = "Closed"
         /\ rs[i].start < rs[i + 1].start
         /\ ~(rs[i + 1].start <= rs[i].end + 1)
    /\ Cardinality({i \in 1..Len(rs) : rs[i].tag = "ToEnd"}) <= 1

Reverse(s) == [i \in 1..Len(s) |-> s[Len(s) + 1 - i]]

\* from_ranges has returned and its argument is still at hand.
Merged == pc = "ranges" /\ hist = <<>>

\* C1: whatever list of CutRanges from_ranges is given, the Ranges it returns
\* are strictly sorted by start, no range touches or overlaps the one before
\* it, there is at most one ToEnd and a ToEnd is the last element.
C1_MergeInvariant == Merged => WellFormed(ranges)

\* from_ranges has merged an unsorted list into a Closed and a final ToEnd.
C1_Witness ==
    /\ Merged
    /\ Len(cuts) = 3
    /\ cuts[1].tag = "ToEnd"
    /\ Len(ranges) = 2
    /\ ranges[2].tag = "ToEnd"

\* C2: a position is covered by from_ranges(list) exactly when one of the
\* CutRanges of the list covers it; the list in another order, or with every
\* entry repeated, gives the same Ranges.
C2_SameCoverage ==
    Merged =>
        /\ \A p \in Usize :
             Covered(ranges, p) <=> \E i \in 1..Len(cuts) : CutCovers(cuts[i], p)
        /\ FromRangesOf(Reverse(cuts)) = ranges
        /\ FromRangesOf(cuts \o cuts) = ranges

\* An unsorted list with a range that lies inside another and one that touches it.
C2_Witness ==
    /\ Merged
    /\ Len(cuts) = 3
    /\ cuts[1] = CutClosed(1, MaxIdx)
    /\ cuts[2] = Unit(1)
    /\ cuts[3] = FromStart(0)
    /\ ranges = <<Closed(0, MaxIdx)>>

\* C3: a position is covered by r.complement() exactly when r does not cover
\* it; the complement of [ToEnd(0)] is empty and that of the empty Ranges is
\* [ToEnd(0)].
C3_ComplementCoverage ==
    Len(hist) >= 1 =>
        LET r == hist[Len(hist)] IN
        /\ \A p \in Usize : Covered(ranges, p) <=> ~Covered(r, p)
        /\ r = <<ToEnd(0)>> => ranges = <<>>
        /\ r = <<>> => ranges = <<ToEnd(0)>>

\* complement() has turned a range in the middle into the two gaps around it.
C3_Witness ==
    /\ Len(hist) = 1
    /\ hist[1] = <<Closed(1, 1)>>
    /\ ranges = <<Closed(0, 0), ToEnd(2)>>

\* C4: complementing twice gives back the Ranges one started from.
C4_ComplementInvolution ==
    Len(hist) >= 2 => ranges = hist[Len(hist) - 1]

\* Two complements of a Ranges of two elements, the last of them a ToEnd.
C4_Witness ==
    /\ Len(hist) = 2
    /\ Len(ranges) = 2
    /\ ranges[2].tag = "ToEnd"
    /\ hist[2] # ranges

\* The number of positions below len that a range covers.
ClippedLen(r, len) ==
    IF r.start >= len THEN 0
    ELSE IF r.tag = "Closed" THEN Min(r.end + 1, len) - r.start
    ELSE len - r.start

RECURSIVE SumClipped(_, _, _)
SumClipped(rs, i, len) ==
    IF i > Len(rs) THEN 0 ELSE ClippedLen(rs[i], len) + SumClipped(rs, i + 1, len)

\* C5: select returns, in their order and once each, the elements whose
\* position the Ranges cover; their number is the sum of the clipped lengths
\* of the ranges.
C5_SelectIsCoveredSubsequence ==
    pc = "selected" =>
        /\ selected.kind = "ok"
        /\ selected.out = SelectSeq(xs, LAMBDA x : Covered(ranges, x))
        /\ Len(selected.out) = SumClipped(ranges, 1, Len(xs))

\* select has cut a Closed range off at the end of the line and kept a part.
C5_Witness ==
    /\ pc = "selected"
    /\ Len(ranges) = 1
    /\ ranges[1].tag = "Closed"
    /\ ranges[1].start > 0
    /\ ranges[1].start < Len(xs)
    /\ ranges[1].end >= Len(xs)
    /\ selected.out # <<>>

(***************************************************************************)
(* What the claims say of parse.  The texts are read here as the grammar   *)
(* reads them: groups of digits and hyphens between separator characters,  *)
(* a number being whatever its digits write, of any size.                  *)
(***************************************************************************)
IsSeparator(c) == c \in {",", " ", "\t"}
LexicallyValid(s) == \A i \in 1..Len(s) : IsDigit(s[i]) \/ s[i] = "-" \/ IsSeparator(s[i])

\* The number of separator characters in s[1..i].
RECURSIVE SeparatorsUpTo(_, _)
SeparatorsUpTo(s, i) ==
    IF i = 0 THEN 0 ELSE SeparatorsUpTo(s, i - 1) + (IF IsSeparator(s[i]) THEN 1 ELSE 0)

NGroups(s) == SeparatorsUpTo(s, Len(s)) + 1

\* The k-th group: the characters between the (k-1)-th and the k-th separator.
Group(s, k) ==
    SelectSeq([i \in 1..Len(s) |-> <<s[i], SeparatorsUpTo(s, i), IsSeparator(s[i])>>],
              LAMBDA t : t[2] = k - 1 /\ ~t[3])

GroupText(s, k) == LET g == Group(s, k) IN [i \in 1..Len(g) |-> g[i][1]]

AllDigits(g) == Len(g) >= 1 /\ \A i \in 1..Len(g) : IsDigit(g[i])
HyphenAt(g) == {i \in 1..Len(g) : g[i] = "-"}

\* The two numbers of a group "N-M", "-M", "N-" or "N" (0 stands for none).
Before(g) == LET h == CHOOSE i \in HyphenAt(g) : TRUE IN SubSeq(g, 1, h - 1)
After(g) == LET h == CHOOSE i \in HyphenAt(g) : TRUE IN SubSeq(g, h + 1, Len(g))

\* One of the four shapes N, N-M, -M, N-.
WellShaped(g) ==
    \/ AllDigits(g)
    \/ /\ Cardinality(HyphenAt(g)) = 1
       /\ Len(g) >= 2
       /\ Before(g) = <<>> \/ AllDigits(Before(g))
       /\ After(g) = <<>> \/ AllDigits(After(g))

NumbersOf(g) ==
    IF AllDigits(g) THEN {DecimalValue(g)}
    ELSE {DecimalValue(d) : d \in {Before(g), After(g)} \ {<<>>}}

HasZero(g) == WellShaped(g) /\ 0 \in NumbersOf(g)
Descending(g) ==
    /\ WellShaped(g)
    /\ ~HasZero(g)
    /\ ~AllDigits(g)
    /\ Before(g) # <<>> /\ After(g) # <<>>
    /\ DecimalValue(Before(g)) > DecimalValue(After(g))
GoodRange(g) == WellShaped(g) /\ ~HasZero(g) /\ ~Descending(g)

\* The k-th group is the first one that is in error.
FirstInError(s, k) ==
    /\ k \in 1..NGroups(s)
    /\ \A j \in 1..(k - 1) : GoodRange(GroupText(s, j))
    /\ ~GoodRange(GroupText(s, k))

\* Every run of digits writes a number that fits usize.
NumbersFit(s) ==
    \A i \in 1..Len(s) :
        (IsDigit(s[i]) /\ (i = 1 \/ ~IsDigit(s[i - 1])))
            => DecimalValue(SubSeq(s, i, DigitsEnd(s, i) - 1)) <= UsizeMax

\* A number written in base ten.
DigitChar == <<"0", "1", "2", "3", "4", "5", "6", "7", "8", "9">>
RECURSIVE Dec(_)
Dec(n) == IF n < 10 THEN <<DigitChar[n + 1]>> ELSE Dec(n \div 10) \o <<DigitChar[(n % 10) + 1]>>

Numerals == 1..MaxNumber

\* What C6 says of the text s once parsed to res, for the numbers N <= M.
OneBasedToZeroBased(s, res, N, M) ==
    /\ s = Dec(N) => res = Ok(<<Closed(N - 1, N - 1)>>)
    /\ s = Dec(N) \o <<"-">> \o Dec(M) => res = Ok(<<Closed(N - 1, M - 1)>>)
    /\ s = <<"-">> \o Dec(M) => res = Ok(<<Closed(0, M - 1)>>)
    /\ s = Dec(N) \o <<"-">> => res = Ok(<<ToEnd(N - 1)>>)

\* C6: for all N, M >= 1 with N <= M the texts "N", "N-M", "-M" and "N-"
\* parse to [Closed(N-1,N-1)], [Closed(N-1,M-1)], [Closed(0,M-1)] and
\* [ToEnd(N-1)].
C6_OneBasedToZeroBased ==
    pc = "parsed" =>
        \A N, M \in Numerals : N <= M => OneBasedToZeroBased(text, result, N, M)

\* C6 for the numbers that fit usize.
C6_WhenNumbersFit ==
    pc = "parsed" =>
        \A N, M \in Numerals :
            (N <= M /\ M <= UsizeMax) => OneBasedToZeroBased(text, result, N, M)

\* C7: when the first range in error of a lexically valid text is well
\* shaped and has a number that is 0, parse returns NumberedFromZero, also
\* when the range is descending as well.
C7_ZeroBeforeDescending ==
    (pc = "parsed" /\ LexicallyValid(text)) =>
        \A k \in 1..NGroups(text) :
            (FirstInError(text, k) /\ HasZero(GroupText(text, k)))
                => result = Err(NumberedFromZero)

\* C7 for the texts whose numbers fit usize.
C7_WhenNumbersFit ==
    (pc = "parsed" /\ LexicallyValid(text) /\ NumbersFit(text)) =>
        \A k \in 1..NGroups(text) :
            (FirstInError(text, k) /\ HasZero(GroupText(text, k)))
                => result = Err(NumberedFromZero)

\* A Closed CutRange with start > end has been built.
BuiltDescending == \E i \in 1..Len(cuts) : cuts[i].tag = "Closed" /\ cuts[i].start > cuts[i].end

\* C8: when the first range in error is "N-M" with N > M >= 1, wherever it
\* stands, parse returns DescendingRange; no Ranges is returned and no Closed
\* range with start > end is built.
C8_DescendingRejected ==
    /\ (pc = "parsed" /\ LexicallyValid(text)) =>
         \A k \in 1..NGroups(text) :
             (FirstInError(text, k) /\ Descending(GroupText(text, k)))
                 => result = Err(DescendingRange) /\ ranges = <<>>
    /\ ~BuiltDescending

\* C8 for the texts whose numbers fit usize.
C8_WhenNumbersFit ==
    /\ (pc = "parsed" /\ LexicallyValid(text) /\ NumbersFit(text)) =>
         \A k \in 1..NGroups(text) :
             (FirstInError(text, k) /\ Descending(GroupText(text, k)))
                 => result = Err(DescendingRange) /\ ranges = <<>>
    /\ ~BuiltDescending

\* The text is empty, starts or ends with a separator, or has two
\* separators next to each other: one of its groups is empty.
MisplacedSeparator(s) == \E k \in 1..NGroups(s) : GroupText(s, k) = <<>>

\* C9: parse succeeds only on a non-empty list of ranges with exactly one
\* separator between two ranges; the empty text and a leading, a trailing or
\* a doubled separator yield Err.
C9_SeparatorsRejected ==
    pc = "parsed" =>
        /\ result.kind = "Ok" =>
             \A k \in 1..NGroups(text) : GoodRange(GroupText(text, k))
        /\ MisplacedSeparator(text) => result.kind = "Err"

\* C9 for the texts whose numbers fit usize.
C9_WhenNumbersFit ==
    (pc = "parsed" /\ NumbersFit(text)) =>
        /\ result.kind = "Ok" =>
             \A k \in 1..NGroups(text) : GoodRange(GroupText(text, k))
        /\ MisplacedSeparator(text) => result.kind = "Err"

ErrorKinds ==
    {"NumberedFromZero", "DescendingRange", "IndecipherableRange",
     "UnexpectedSeparator", "LexError"}

\* C10: parse returns Ok(Ranges) or one of its five errors for every text
\* and never panics, whatever the size of the numbers written in it.
C10_NeverPanics ==
    pc = "parsed" =>
        \/ result.kind = "Ok"
        \/ result.kind = "Err" /\ result.err.err \in ErrorKinds

\* C10 for the texts whose numbers fit usize: no panic, and no bound of a
\* CutRange is so large that the + 1 of merging would overflow.
C10_WhenNumbersFit ==
    (pc = "parsed" /\ NumbersFit(text)) =>
        /\ \/ result.kind = "Ok"
           \/ result.kind = "Err" /\ result.err.err \in ErrorKinds
        /\ \A i \in 1..Len(cuts) : ~WouldOverflow(FromCutRange(cuts[i]).start)
        /\ \A i \in 1..Len(cuts) :
             cuts[i].tag # "ToEnd" => ~WouldOverflow(FromCutRange(cuts[i]).end)

(***************************************************************************)
(* The streaming cut functions (src/src/cut.rs)                            *)
(*                                                                         *)
(* A byte is named by a string.  Of the bytes of the inputs "," is the     *)
(* field delimiter, "\n" and "NUL" are the two line delimiters (each an    *)
(* ordinary character where the other one delimits the lines), and "C3"    *)
(* "A9" is the UTF-8 encoding of one character of two bytes; a "C3" that   *)
(* no "A9" follows and an "A9" that follows no "C3" are not UTF-8.  A char *)
(* is the sequence of its bytes and a String is a sequence of chars.       *)
(***************************************************************************)
Ascii == {",", "\n", "NUL", ":", "\t"}

Char(b) == <<b>>
TwoByteChar == <<"C3", "A9">>

RECURSIVE Concat(_)
Concat(ss) == IF ss = <<>> THEN <<>> ELSE Head(ss) \o Concat(Tail(ss))

\* String::as_bytes, str::bytes
AsBytes(str) == Concat(str)

\* String::from_utf8 from bytes[i] on, chars being those decoded so far
RECURSIVE FromUtf8Loop(_, _, _)
FromUtf8Loop(bytes, i, chars) ==
    IF i > Len(bytes) THEN Ok(chars)
    ELSE IF bytes[i] \in Ascii THEN FromUtf8Loop(bytes, i + 1, Append(chars, Char(bytes[i])))
    ELSE IF bytes[i] = "C3" /\ i < Len(bytes) /\ bytes[i + 1] = "A9"
         THEN FromUtf8Loop(bytes, i + 2, Append(chars, TwoByteChar))
    ELSE Err("FromUtf8Error")

\* string_from_utf8: the String, or an io::Error of kind InvalidData
StringFromUtf8(bytes) ==
    LET r == FromUtf8Loop(bytes, 1, <<>>) IN
    IF r.kind = "Ok" THEN r ELSE Err("InvalidData")

\* line.contains(field_delimiter)
Contains(line, ch) == \E i \in 1..Len(line) : line[i] = ch

\* line.split(field_delimiter): the pieces between the delimiters, and the
\* rest of the line after the last of them
RECURSIVE SplitLoop(_, _, _, _)
SplitLoop(line, ch, i, start) ==
    IF i > Len(line) THEN <<SubSeq(line, start, Len(line))>>
    ELSE IF line[i] = ch
         THEN <<SubSeq(line, start, i - 1)>> \o SplitLoop(line, ch, i + 1, i + 1)
         ELSE SplitLoop(line, ch, i + 1, start)

Split(line, ch) == SplitLoop(line, ch, 1, 1)

\* A Regex: one character, or one character one or more times.
Lit(ch) == [re |-> "lit", ch |-> ch]
Plus(ch) == [re |-> "plus", ch |-> ch]

\* The end of the match of the regex that starts at line[i] (leftmost, greedy).
RECURSIVE MatchEnd(_, _, _)
MatchEnd(regex, line, i) ==
    IF regex.re = "plus" /\ i < Len(line) /\ line[i + 1] = regex.ch
    THEN MatchEnd(regex, line, i + 1)
    ELSE i

\* field_delimiter.is_match(&line)
IsMatch(regex, line) == Contains(line, regex.ch)

\* field_delimiter.split(&line): the text between the successive matches, and
\* the rest of the line after the last match
RECURSIVE RegexSplitLoop(_, _, _, _)
RegexSplitLoop(regex, line, i, last) ==
    IF i > Len(line) THEN <<SubSeq(line, last, Len(line))>>
    ELSE IF line[i] = regex.ch
         THEN LET e == MatchEnd(regex, line, i) IN
              <<SubSeq(line, last, i - 1)>> \o RegexSplitLoop(regex, line, e + 1, e + 1)
         ELSE RegexSplitLoop(regex, line, i + 1, last)

RegexSplit(regex, line) == RegexSplitLoop(regex, line, 1, 1)

\* Option
None == [some |-> FALSE]
Some(x) == [some |-> TRUE, val |-> x]

\* Iterator::next of a Vec's or a Split's iterator, held as what is left of it
IterNext(it) == IF it = <<>> THEN None ELSE Some(Head(it))
IterRest(it) == IF it = <<>> THEN <<>> ELSE Tail(it)

\* RangeFilterIterator::new; requested is the number of calls of inner.next()
RangeFilterIteratorAllWhenEmpty(into_inner, rs) ==
    [inner |-> into_inner, next_index |-> 0, requested |-> 0,
     ranges |-> IterRest(rs),
     current_range |-> IF rs = <<>> THEN Some(ToEnd(0)) ELSE IterNext(rs)]
RangeFilterIterator(into_inner, rs) ==
    [inner |-> into_inner, next_index |-> 0, requested |-> 0,
     ranges |-> IterRest(rs), current_range |-> IterNext(rs)]

\* RangeFilterIterator::advance_inner
RECURSIVE AdvanceInner(_, _)
AdvanceInnerNever(self, until) == self
AdvanceInner(self, until) ==
    IF self.next_index < until
    THEN AdvanceInner([self EXCEPT !.next_index = Add1(self.next_index),
                                   !.inner = IterRest(self.inner),
                                   !.requested = self.requested + 1], until)
    ELSE self

\* next: if self.next_index <= end, "still within the current range"
WithinStrictly(next_index, end) == next_index < end
Within(next_index, end) == next_index <= end

\* impl Iterator for RangeFilterIterator: next, as the item and the iterator after it
RECURSIVE RangeFilterNext(_)
RangeFilterNext(self) ==
    IF ~self.current_range.some THEN [item |-> None, self |-> self]
    ELSE LET range == self.current_range.val
             advanced == AdvanceInner(self, range.start)
         IN IF range.tag = "Closed"
            THEN IF Within(advanced.next_index, range.end)
                 THEN [item |-> IterNext(advanced.inner),
                       self |-> [advanced EXCEPT !.next_index = Add1(advanced.next_index),
                                                 !.inner = IterRest(advanced.inner),
                                                 !.requested = advanced.requested + 1]]
                 ELSE RangeFilterNext([advanced EXCEPT
                                          !.current_range = IterNext(advanced.ranges),
                                          !.ranges = IterRest(advanced.ranges)])
            ELSE [item |-> IterNext(advanced.inner),
                  self |-> [advanced EXCEPT !.inner = IterRest(advanced.inner),
                                            !.requested = advanced.requested + 1]]

\* Iterator::collect: the items up to the first None
RECURSIVE Collect(_)
Collect(self) ==
    LET n == RangeFilterNext(self) IN
    IF n.item.some THEN <<n.item.val>> \o Collect(n.self) ELSE <<>>

\* [String]::join: the separator only between two strings
JoinSeparatorAfterEach(strs, sep) == Concat([i \in 1..Len(strs) |-> strs[i] \o sep])
Join(strs, sep) ==
    Concat([i \in 1..Len(strs) |-> IF i = 1 THEN strs[i] ELSE sep \o strs[i]])

(***************************************************************************)
(* Files and the read of one chunk                                         *)
(***************************************************************************)
\* What a file name opens to: nothing (File::open fails), or a reader of
\* data that ends in the end of the file or in a read error.
Missing == [open |-> FALSE]
Reader(data, end) == [open |-> TRUE, data |-> data, end |-> end]

\* The first index after p where data holds the byte t, 0 if there is none.
RECURSIVE Find(_, _, _)
Find(data, p, t) ==
    IF p >= Len(data) THEN 0
    ELSE IF data[p + 1] = t THEN p + 1
    ELSE Find(data, p + 1, t)

\* reader.read_until(line_delimiter, &mut buf)? on a cleared buf, p bytes of
\* the reader having been read: Ok(0) at the end of the file, Ok(n) with the
\* bytes up to and with the delimiter (or up to the end of the file) in buf,
\* or the io::Error that the reader ran into before either.
ReadUntil(reader, p, t) ==
    LET j == Find(reader.data, p, t) IN
    IF j > 0 THEN [kind |-> "Ok", buf |-> SubSeq(reader.data, p + 1, j), pos |-> j]
    ELSE IF reader.end = "error" THEN [kind |-> "Err", buf |-> <<>>, pos |-> Len(reader.data)]
    ELSE [kind |-> "Ok", buf |-> SubSeq(reader.data, p + 1, Len(reader.data)),
          pos |-> Len(reader.data)]

\* if buf.ends_with(&[line_delimiter]) { buf.pop(); }
PopNever(buf, t) == buf
PopDelimiter(buf, t) ==
    IF buf # <<>> /\ buf[Len(buf)] = t THEN SubSeq(buf, 1, Len(buf) - 1) ELSE buf

(***************************************************************************)
(* What one turn of each loop does with the chunk it has read: the bytes   *)
(* it writes, the io::Error it returns, or a panic.                        *)
(***************************************************************************)
Wrote(bytes, fields) == [kind |-> "Ok", wrote |-> bytes, fields |-> fields]
FailedSkipsLine(e) == Wrote(<<>>, None)
Failed(e) == [kind |-> "Err", err |-> e, wrote |-> <<>>, fields |-> None]
Panicked == [kind |-> "panic", wrote |-> <<>>, fields |-> None]

\* cut_bytes: select(&buf, ranges.clone()), then the line delimiter
BytesRow(buf, t, rs) ==
    LET bytes == SelectOf(buf, rs) IN
    IF bytes.kind = "panic" THEN Panicked ELSE Wrote(bytes.out \o <<t>>, None)

\* cut_characters: the line as chars, select, then the line delimiter
CharactersRow(buf, t, rs) ==
    LET line == StringFromUtf8(buf) IN
    IF line.kind = "Err" THEN Failed(line.err)
    ELSE LET chars == SelectOf(line.val, rs) IN
         IF chars.kind = "panic" THEN Panicked
         ELSE Wrote(AsBytes(chars.out) \o <<t>>, None)

\* else if !suppress { write the line and the line delimiter }
PassedThroughUnterminated(suppress, line, t) ==
    IF ~suppress THEN Wrote(AsBytes(line), None) ELSE Wrote(<<>>, None)
PassedThroughWhenSuppressed(suppress, line, t) ==
    IF suppress THEN Wrote(AsBytes(line) \o <<t>>, None) ELSE Wrote(<<>>, None)
PassedThrough(suppress, line, t) ==
    IF ~suppress THEN Wrote(AsBytes(line) \o <<t>>, None) ELSE Wrote(<<>>, None)

\* The selected fields, joined, and the line delimiter.
FieldsWritten(fields, output_delimiter, t, rs) ==
    Wrote(AsBytes(Join(Collect(RangeFilterIterator(fields, rs)), output_delimiter)) \o <<t>>,
          Some(fields))

\* cut_fields_with_char
FieldsCharRow(buf, t, m, rs) ==
    LET line == StringFromUtf8(buf) IN
    IF line.kind = "Err" THEN Failed(line.err)
    ELSE IF Contains(line.val, m.field_delimiter)
         THEN FieldsWritten(Split(line.val, m.field_delimiter), m.output_delimiter, t, rs)
         ELSE PassedThrough(m.suppress, line.val, t)

\* cut_fields_with_regex
FieldsRegexRow(buf, t, m, rs) ==
    LET line == StringFromUtf8(buf) IN
    IF line.kind = "Err" THEN Failed(line.err)
    ELSE IF IsMatch(m.delimiter, line.val)
         THEN FieldsWritten(RegexSplit(m.delimiter, line.val), m.joiner, t, rs)
         ELSE PassedThrough(m.suppress, line.val, t)

\* enum ModeArgs, but for its Ranges
BytesMode == [mode |-> "Bytes"]
CharactersMode == [mode |-> "Characters"]
FieldsChar(field_delimiter, output_delimiter, suppress) ==
    [mode |-> "FieldsChar", field_delimiter |-> field_delimiter,
     output_delimiter |-> output_delimiter, suppress |-> suppress]
FieldsRegex(delimiter, joiner, suppress) ==
    [mode |-> "FieldsRegex", delimiter |-> delimiter, joiner |-> joiner,
     suppress |-> suppress]

\* struct Args
Args(mode_args, line_delimiter, filenames) ==
    [mode_args |-> mode_args, line_delimiter |-> line_delimiter, filenames |-> filenames]

(***************************************************************************)
(* One turn of the loop of a cut function.  The BufWriter is dropped when  *)
(* the function returns or unwinds, and the drop writes what it holds to   *)
(* standard output; writes to standard output succeed.                     *)
(***************************************************************************)
\* buf.clear()
ClearNever(buf) == buf
Clear(buf) == <<>>

\* read_until appends what it reads to buf; then the pop of one line delimiter
Chunk(read, t) == PopDelimiter(buffer \o read.buf, t)

Entry(buf, row) ==
    [file |-> Len(files), buf |-> buf, kind |-> row.kind, wrote |-> row.wrote,
     fields |-> row.fields]

Return(res) ==
    /\ io_result' = res
    /\ stdout' = stdout \o writer
    /\ writer' = <<>>
    /\ pc' = "returned"
    /\ buffer' = <<>>
    /\ UNCHANGED <<exit_code, error>>

\* read is what read_until returned, row what the turn does with the chunk.
Turn(read, row) ==
    /\ UNCHANGED <<cuts, ranges, hist, xs, selected, text, result, matches, args, files,
                   filterVars, cmpVars>>
    /\ IF read.kind = "Err"
       THEN Return(Err("Other")) /\ pos' = read.pos /\ UNCHANGED log
       ELSE IF Len(read.buf) = 0
       THEN Return(Ok(<<>>)) /\ UNCHANGED <<pos, log>>
       ELSE /\ pos' = read.pos
            /\ log' = Append(log, Entry(Chunk(read, args.line_delimiter), row))
            /\ CASE row.kind = "Ok" ->
                      /\ writer' = writer \o row.wrote
                      /\ buffer' = Clear(Chunk(read, args.line_delimiter))
                      /\ UNCHANGED <<pc, stdout, io_result, error, exit_code>>
                 [] row.kind = "Err" -> Return(Err(row.err))
                 [] row.kind = "panic" ->
                      /\ stdout' = stdout \o writer
                      /\ writer' = <<>>
                      /\ pc' = "exited"
                      /\ exit_code' = 101
                      /\ buffer' = <<>>
                      /\ UNCHANGED <<io_result, error>>

Reading(mode) == pc = "reading" /\ args.mode_args.mode = mode
ReadChunk == ReadUntil(files[Len(files)], pos, args.line_delimiter)

CutBytes ==
    /\ Reading("Bytes")
    /\ Turn(ReadChunk, BytesRow(Chunk(ReadChunk, args.line_delimiter),
                                args.line_delimiter, ranges))

CutCharacters ==
    /\ Reading("Characters")
    /\ Turn(ReadChunk, CharactersRow(Chunk(ReadChunk, args.line_delimiter),
                                     args.line_delimiter, ranges))

CutFieldsWithChar ==
    /\ Reading("FieldsChar")
    /\ Turn(ReadChunk, FieldsCharRow(Chunk(ReadChunk, args.line_delimiter),
                                     args.line_delimiter, args.mode_args, ranges))

CutFieldsWithRegex ==
    /\ Reading("FieldsRegex")
    /\ Turn(ReadChunk, FieldsRegexRow(Chunk(ReadChunk, args.line_delimiter),
                                      args.line_delimiter, args.mode_args, ranges))

(***************************************************************************)
(* main, parse_args and for_each_file (src/src/main.rs, src/src/args.rs)   *)
(***************************************************************************)
\* validate_ranges
ValidateRanges(value, complement) ==
    IF value = <<>> THEN Err("List of ranges must be provided")
    ELSE LET parsed == ParseOf(value).res IN
         CASE parsed.kind = "Ok" ->
                Ok(IF complement THEN ComplementOf(parsed.val) ELSE parsed.val)
           [] parsed.kind = "Err" -> Err(parsed.err)
           [] parsed.kind = "panic" -> Panic

\* validate_char_delimiter: panics when the value has no character
ValidateCharDelimiter(value) ==
    IF value = <<>> THEN Panic
    ELSE IF Len(value) > 1 THEN Err("'--delimiter <delim>' must be a single character")
    ELSE Ok(value[1])

\* validate_regex_delimiter, for the patterns "," and ",+" and for patterns
\* that Regex::new rejects
ValidateRegexDelimiter(value) ==
    IF value = <<Char(",")>> THEN Ok(Lit(Char(",")))
    ELSE IF value = <<Char(","), Char("+")>> THEN Ok(Plus(Char(",")))
    ELSE Err("A valid regular expression must be provided")

Tab == <<Char("\t")>>

\* parse_args, the fields mode once the ranges are valid
FieldsModeArgs(m) ==
    IF m.regex_delimiter.some
    THEN LET delimiter == ValidateRegexDelimiter(m.regex_delimiter.val) IN
         IF delimiter.kind # "Ok" THEN delimiter
         ELSE Ok(FieldsRegex(delimiter.val,
                             IF m.output_delimiter.some THEN m.output_delimiter.val ELSE Tab,
                             m.suppress))
    ELSE LET field_delimiter ==
                 ValidateCharDelimiter(IF m.char_delimiter.some THEN m.char_delimiter.val
                                       ELSE Tab)
         IN IF field_delimiter.kind # "Ok" THEN field_delimiter
            ELSE Ok(FieldsChar(field_delimiter.val,
                               IF m.output_delimiter.some THEN m.output_delimiter.val
                               ELSE <<field_delimiter.val>>,
                               m.suppress))

\* parse_args: Ok of the Args and the Ranges of their mode, Err, or a panic
ParseArgs(m) ==
    LET validated == ValidateRanges(m.ranges, m.complement)
        mode_args == CASE m.mode = "bytes" -> Ok(BytesMode)
                       [] m.mode = "characters" -> Ok(CharactersMode)
                       [] m.mode = "fields" -> FieldsModeArgs(m)
    IN IF validated.kind # "Ok" THEN validated
       ELSE IF mode_args.kind # "Ok" THEN mode_args
       ELSE Ok([ranges |-> validated.val,
                args |-> Args(mode_args.val, IF m.zero_terminated THEN "NUL" ELSE "\n",
                              m.file)])

\* main up to the call of cut: print_error_and_exit(.., 1) on Err; a panic
\* ends the process with code 101.
Main ==
    /\ pc = "main"
    /\ LET parsed == ParseArgs(matches) IN
       /\ result' = parsed
       /\ CASE parsed.kind = "Ok" ->
                 /\ ranges' = parsed.val.ranges
                 /\ args' = parsed.val.args
                 /\ pc' = "files"
                 /\ UNCHANGED exit_code
            [] parsed.kind = "Err" ->
                 /\ exit_code' = 1
                 /\ pc' = "exited"
                 /\ UNCHANGED <<ranges, args>>
            [] parsed.kind = "panic" ->
                 /\ exit_code' = 101
                 /\ pc' = "exited"
                 /\ UNCHANGED <<ranges, args>>
    /\ UNCHANGED <<cuts, hist, xs, selected, text, matches, files, pos, writer, stdout, log,
                   io_result, error, buffer, filterVars, cmpVars>>

\* What the file names of a run may open to: a file that is not there, one
\* with a line, one whose second line is not UTF-8, and one that fails to be
\* read after its first bytes.
Sources ==
    {Missing,
     Reader(<<",", "NUL", ",", "\n">>, "eof"),
     Reader(<<"NUL", "\n", "C3">>, "eof"),
     Reader(<<",", "\n", "NUL">>, "error")}

\* for_each_file: for filename in filenames, the loop is over when every
\* file name has had its turn
DoneAfterFirst(opened, filenames) == Len(opened) >= 1
Done(opened, filenames) == Len(opened) = Len(filenames)

\* for_each_file: the next file name is opened ("-" is standard input) and
\* handed to f; when File::open fails, error = true and the loop continues.
OpenFile ==
    /\ pc = "files"
    /\ Len(files) < Len(args.filenames)
    /\ ~Done(files, args.filenames)
    /\ \E source \in Sources :
         /\ args.filenames[Len(files) + 1] = "-" => source.open
         /\ files' = Append(files, source)
         /\ IF source.open
            THEN pc' = "reading" /\ UNCHANGED error
            ELSE pc' = "files" /\ error' = TRUE
    /\ pos' = 0
    /\ buffer' = <<>>
    /\ UNCHANGED <<cuts, ranges, hist, xs, selected, text, result, matches, args, writer,
                   stdout, log, io_result, exit_code, filterVars, cmpVars>>

\* for_each_file: if let Err(err) = f(file) { error = true; }
ErrorKept(e, res) == e
ErrorSet(e, res) == e \/ res.kind = "Err"

Returned ==
    /\ pc = "returned"
    /\ error' = ErrorSet(error, io_result)
    /\ pc' = "files"
    /\ UNCHANGED <<cuts, ranges, hist, xs, selected, text, result, matches, args, files, pos,
                   writer, stdout, log, io_result, exit_code, buffer, filterVars, cmpVars>>

\* for_each_file returns Err(()) if error, and main exits with 1 on it.
ExitCode(e) == IF e THEN 1 ELSE 0

Exit ==
    /\ pc = "files"
    /\ Done(files, args.filenames)
    /\ exit_code' = ExitCode(error)
    /\ pc' = "exited"
    /\ UNCHANGED <<cuts, ranges, hist, xs, selected, text, result, matches, args, files, pos,
                   writer, stdout, log, io_result, error, buffer, filterVars, cmpVars>>

(***************************************************************************)
(* SpecCut: one call of a cut function on a reader, as for_each_file makes *)
(* it for a file it has opened                                             *)
(***************************************************************************)
Bytes == {",", "\n", "NUL", "C3", "A9"}
Streams == UNION {[1..n -> Bytes] : n \in 0..MaxStream}

\* The Ranges that validate_ranges can return: those of parse, complemented or not.
ReachableRanges ==
    LET merged == {FromRangesOf(c) : c \in CutLists} IN
    merged \cup {ComplementOf(r) : r \in merged}

OutputDelimiters == {<<Char(",")>>, <<Char(":"), Char(":")>>}

ModesOfCut ==
    UNION { {BytesMode, CharactersMode},
            {FieldsChar(Char(","), od, s) : od \in OutputDelimiters, s \in BOOLEAN},
            {FieldsRegex(re, <<Char(":"), Char(":")>>, s) :
                re \in {Lit(Char(",")), Plus(Char(","))}, s \in BOOLEAN} }

InitCut ==
    /\ pc = "reading"
    /\ cuts = <<>>
    /\ ranges \in ReachableRanges
    /\ hist = <<>>
    /\ xs = <<>>
    /\ selected = NoResult
    /\ text = <<>>
    /\ result = NoResult
    /\ matches = NoResult
    /\ \E m \in ModesOfCut, t \in {"\n", "NUL"} : args = Args(m, t, <<"-">>)
    /\ \E data \in Streams : files = <<Reader(data, "eof")>>
    /\ pos = 0
    /\ writer = <<>>
    /\ stdout = <<>>
    /\ log = <<>>
    /\ io_result = NoResult
    /\ error = FALSE
    /\ exit_code = -1
    /\ buffer = <<>>
    /\ NoFilter
    /\ NoCmp

NextCut == CutBytes \/ CutCharacters \/ CutFieldsWithChar \/ CutFieldsWithRegex

SpecCut == InitCut /\ [][NextCut]_vars

(***************************************************************************)
(* SpecMain: a run of the program from its command line to its exit        *)
(***************************************************************************)
\* The range lists of the command lines: "9" is a number above usize::MAX.
ArgAlphabet == {"1", "9", "-"}
ArgTexts == UNION {[1..n -> ArgAlphabet] : n \in 0..MaxArg}

\* [file]...: one file name or more ("-" by default)
FileNames == UNION {[1..n -> {"-", "f"}] : n \in 1..MaxFiles}

\* What clap lets through: -d, -r, -o and -s only with -f, and not both -d and -r.
FieldsOptions ==
    {[d |-> d, r |-> None] : d \in {None, Some(<<>>), Some(<<Char(",")>>),
                                    Some(<<Char(","), Char(",")>>)}}
    \cup {[d |-> None, r |-> r] : r \in {Some(<<Char(","), Char("+")>>), Some(<<Char("*")>>)}}

Matches(mode, value, complement, fo, od, suppress, zero, file) ==
    [mode |-> mode, ranges |-> value, complement |-> complement,
     char_delimiter |-> fo.d, regex_delimiter |-> fo.r, output_delimiter |-> od,
     suppress |-> suppress, zero_terminated |-> zero, file |-> file]

CommandLines ==
    {Matches(mode, value, c, [d |-> None, r |-> None], None, FALSE, z, file) :
        mode \in {"bytes", "characters"}, value \in ArgTexts, c \in BOOLEAN,
        z \in BOOLEAN, file \in FileNames}
    \cup
    {Matches("fields", value, c, fo, od, s, z, file) :
        value \in ArgTexts, c \in BOOLEAN, fo \in FieldsOptions,
        od \in {None, Some(<<Char(":")>>)}, s \in BOOLEAN, z \in BOOLEAN, file \in FileNames}

InitMain ==
    /\ pc = "main"
    /\ matches \in CommandLines
    /\ text = matches.ranges
    /\ cuts = <<>>
    /\ ranges = <<>>
    /\ hist = <<>>
    /\ xs = <<>>
    /\ selected = NoResult
    /\ result = NoResult
    /\ args = NoResult
    /\ files = <<>>
    /\ pos = 0
    /\ writer = <<>>
    /\ stdout = <<>>
    /\ log = <<>>
    /\ io_result = NoResult
    /\ error = FALSE
    /\ exit_code = -1
    /\ buffer = <<>>
    /\ NoFilter
    /\ NoCmp

NextMain ==
    \/ Main
    \/ OpenFile
    \/ CutBytes \/ CutCharacters \/ CutFieldsWithChar \/ CutFieldsWithRegex
    \/ Returned
    \/ Exit

SpecMain == InitMain /\ [][NextMain]_vars

(***************************************************************************)
(* SpecFilter: the collect of a RangeFilterIterator over the elements of   *)
(* a line, next() by next(), and select on the same line                   *)
(***************************************************************************)
InitFilter ==
    /\ pc = "line"
    /\ ranges \in ReachableRanges
    /\ \E n \in 0..MaxLen : xs = Elems(n)
    /\ cuts = <<>>
    /\ hist = <<>>
    /\ selected = NoResult
    /\ text = <<>>
    /\ result = NoResult
    /\ NoRun
    /\ NoFilter
    /\ NoCmp

\* RangeFilterIterator::new(fields, ranges.clone())
New ==
    /\ pc = "line"
    /\ iter' = RangeFilterIterator(xs, ranges)
    /\ pc' = "filter"
    /\ UNCHANGED <<cuts, ranges, hist, xs, selected, text, result, runVars, collected,
                   cmpVars>>

\* collect: one call of next(); the item is pushed, and None ends the collect
FilterNext ==
    /\ pc = "filter"
    /\ LET n == RangeFilterNext(iter) IN
         /\ iter' = n.self
         /\ IF n.item.some
            THEN collected' = Append(collected, n.item.val) /\ UNCHANGED pc
            ELSE pc' = "collected" /\ UNCHANGED collected
    /\ UNCHANGED <<cuts, ranges, hist, xs, selected, text, result, runVars, cmpVars>>

\* select(&buf, ranges.clone()) on the elements of the same line
SelectLine ==
    /\ pc = "collected"
    /\ selected' = SelectOf(xs, ranges)
    /\ pc' = "compared"
    /\ UNCHANGED <<cuts, ranges, hist, xs, text, result, runVars, filterVars, cmpVars>>

NextFilter == New \/ FilterNext \/ SelectLine

SpecFilter == InitFilter /\ [][NextFilter]_vars

(***************************************************************************)
(* SpecCmp: cmp and eq on the MergedRanges that from_ranges sorts          *)
(***************************************************************************)
\* sorted_ranges: what ranges.iter().map(|cr| cr.into()) yields
MergedRanges == {FromCutRange(cr) : cr \in CutRanges}

InitCmp ==
    /\ pc = "operands"
    /\ operands \in MergedRanges \X MergedRanges \X MergedRanges
    /\ ordering = NoResult
    /\ cuts = <<>>
    /\ ranges = <<>>
    /\ hist = <<>>
    /\ xs = <<>>
    /\ selected = NoResult
    /\ text = <<>>
    /\ result = NoResult
    /\ NoRun
    /\ NoFilter

\* a.cmp(&b) and a == b for the operands, two by two
Compare ==
    /\ pc = "operands"
    /\ LET a == operands[1]
           b == operands[2]
           c == operands[3]
       IN ordering' = [ab |-> Cmp(a, b), ba |-> Cmp(b, a), bc |-> Cmp(b, c),
                       ac |-> Cmp(a, c), aa |-> Cmp(a, a), eq |-> Eq(a, b)]
    /\ pc' = "ordered"
    /\ UNCHANGED <<cuts, ranges, hist, xs, selected, text, result, runVars, filterVars,
                   operands>>

NextCmp == Compare

SpecCmp == InitCmp /\ [][NextCmp]_vars

(***************************************************************************)
(* What the claims say of the cut functions.  The input is read here as    *)
(* the claims read it: the lines are the pieces of the input between the   *)
(* line delimiters, and a line is text when its bytes are UTF-8.           *)
(***************************************************************************)
Last(s) == s[Len(s)]

\* The number of bytes b in s[1..i].
RECURSIVE CountUpTo(_, _, _)
CountUpTo(s, b, i) ==
    IF i = 0 THEN 0 ELSE CountUpTo(s, b, i - 1) + (IF s[i] = b THEN 1 ELSE 0)

Count(s, b) == CountUpTo(s, b, Len(s))

\* The number of lines of the input: one for each delimiter, and one more
\* for what follows the last delimiter, if anything does.
NLines(data, t) ==
    Count(data, t) + (IF data # <<>> /\ Last(data) # t THEN 1 ELSE 0)

\* The k-th line: the bytes that k - 1 delimiters precede, the delimiters left out.
Line(data, t, k) ==
    LET at == {i \in 1..Len(data) : data[i] # t /\ CountUpTo(data, t, i) = k - 1}
        first == IF at = {} THEN 1 ELSE CHOOSE i \in at : \A j \in at : i <= j
    IN SubSeq(data, first, first + Cardinality(at) - 1)

Lines(data, t) == [k \in 1..NLines(data, t) |-> Line(data, t, k)]

ValidUtf8(bytes) ==
    \A i \in 1..Len(bytes) :
        /\ bytes[i] = "C3" => (i < Len(bytes) /\ bytes[i + 1] = "A9")
        /\ bytes[i] = "A9" => (i > 1 /\ bytes[i - 1] = "C3")

\* The configuration of the call.
Mode == args.mode_args.mode
FieldsMode == Mode \in {"FieldsChar", "FieldsRegex"}
Suppress == args.mode_args.suppress
Terminator == args.line_delimiter
OutputDelimiter ==
    AsBytes(IF Mode = "FieldsChar" THEN args.mode_args.output_delimiter
            ELSE args.mode_args.joiner)

\* The delimiter occurs in the line: both regexes match where the character does.
DelimiterIn(buf) == Count(buf, ",") > 0

\* Under way or over, a call of a cut function in fields mode.
CutRuns == pc \in {"reading", "returned"}

\* The bytes that the turns of the loop have written, in their order.
WrittenUpTo(n) == Concat([i \in 1..n |-> log[i].wrote])

\* C11: in fields mode with suppress, a line in which the delimiter does not
\* occur, an empty line too, leaves nothing in the output, whatever the
\* Ranges: its turn writes no byte, and the output holds only what the turns
\* of the other lines wrote.
C11_SuppressedLineWritesNothing ==
    (CutRuns /\ FieldsMode /\ Suppress) =>
        /\ \A i \in 1..Len(log) : ~DelimiterIn(log[i].buf) => log[i].wrote = <<>>
        /\ stdout \o writer =
             Concat([i \in 1..Len(log) |->
                       IF DelimiterIn(log[i].buf) THEN log[i].wrote ELSE <<>>])

\* With suppress, an empty line and a line without delimiter were dropped and
\* a line with a delimiter was written, the Ranges not being empty.
C11_Witness ==
    /\ pc = "returned"
    /\ FieldsMode /\ Suppress
    /\ ranges # <<>>
    /\ Len(log) = 2
    /\ log[1].buf = <<>>
    /\ DelimiterIn(log[2].buf)
    /\ stdout # <<>>

\* C12: in fields mode without suppress, a line of text in which the
\* delimiter does not occur is written as it is, followed by one line
\* delimiter, whatever the Ranges (the empty Ranges and Ranges that cover no
\* field of the line too).
C12_PassedThroughUnchanged ==
    (CutRuns /\ FieldsMode /\ ~Suppress) =>
        \A i \in 1..Len(log) :
            (~DelimiterIn(log[i].buf) /\ ValidUtf8(log[i].buf))
                => log[i].wrote = log[i].buf \o <<Terminator>>

\* Without suppress, a line without delimiter went through Ranges that do
\* not cover its only field.
C12_Witness ==
    /\ pc = "returned"
    /\ FieldsMode /\ ~Suppress
    /\ ~Covered(ranges, 0)
    /\ ranges # <<>>
    /\ Len(log) = 1
    /\ log[1].buf = <<"NUL", "C3", "A9">>
    /\ stdout = <<"NUL", "C3", "A9", "\n">>

\* The strings with the separator between each two of them.
RECURSIVE Joined(_, _)
Joined(strs, sep) ==
    IF strs = <<>> THEN <<>>
    ELSE IF Len(strs) = 1 THEN strs[1]
    ELSE strs[1] \o sep \o Joined(Tail(strs), sep)

\* The fields whose 0-based position the Ranges cover, in their order.
CoveredFields(fields, rs) ==
    LET at == SelectSeq([i \in 1..Len(fields) |-> i], LAMBDA i : Covered(rs, i - 1))
    IN [k \in 1..Len(at) |-> fields[at[k]]]

\* What the turn of the loop does with the chunk when suppress is s.
RowWhenSuppress(buf, s) ==
    IF Mode = "FieldsChar"
    THEN FieldsCharRow(buf, Terminator, [args.mode_args EXCEPT !.suppress = s], ranges)
    ELSE FieldsRegexRow(buf, Terminator, [args.mode_args EXCEPT !.suppress = s], ranges)

\* C13: in fields mode the turn of a line of text that contains the
\* delimiter writes one row: the fields that the Ranges cover, joined by the
\* output delimiter, and the line delimiter (the line delimiter alone when
\* the Ranges cover no field of the line); the row is the same with and
\* without suppress.
C13_DelimitedLineWritesSelectedFields ==
    (CutRuns /\ FieldsMode) =>
        \A i \in 1..Len(log) :
            (DelimiterIn(log[i].buf) /\ ValidUtf8(log[i].buf)) =>
                /\ log[i].kind = "Ok"
                /\ log[i].fields.some
                /\ log[i].wrote =
                     Concat(Joined(CoveredFields(log[i].fields.val, ranges),
                                   IF Mode = "FieldsChar" THEN args.mode_args.output_delimiter
                                   ELSE args.mode_args.joiner))
                     \o <<Terminator>>
                /\ Count(log[i].wrote, Terminator) = 1
                /\ RowWhenSuppress(log[i].buf, TRUE).wrote = log[i].wrote
                /\ RowWhenSuppress(log[i].buf, FALSE).wrote = log[i].wrote

\* A line of three fields of which two Ranges select the first and the
\* last, and a line of two fields of which they select none.
C13_Witness ==
    /\ pc = "returned"
    /\ Mode = "FieldsChar"
    /\ Len(ranges) = 2
    /\ Len(log) >= 1
    /\ log[1].fields.some
    /\ Len(log[1].fields.val) = 3
    /\ log[1].wrote = <<":", ":", "\n">>

\* C14 as stated: with the empty Ranges the turn of every line (of every
\* line of text, where the mode reads text) leaves an empty row, the line
\* delimiter alone, in every mode and with either suppress setting.
C14_EmptyRowForEveryLine ==
    (CutRuns /\ ranges = <<>>) =>
        \A i \in 1..Len(log) :
            (Mode = "Bytes" \/ ValidUtf8(log[i].buf)) => log[i].wrote = <<Terminator>>

\* C14, amended: with the empty Ranges the turn of a line writes the line
\* delimiter alone in bytes mode, in characters mode when the line is text,
\* and in fields mode when the line is text that contains the delimiter; in
\* fields mode a line of text without the delimiter leaves nothing with
\* suppress and itself and the line delimiter without.
C14_EmptyRanges ==
    (CutRuns /\ ranges = <<>>) =>
        \A i \in 1..Len(log) :
            LET buf == log[i].buf IN
            CASE Mode = "Bytes" -> log[i].wrote = <<Terminator>>
              [] Mode = "Characters" -> ValidUtf8(buf) => log[i].wrote = <<Terminator>>
              [] FieldsMode ->
                   ValidUtf8(buf) =>
                       log[i].wrote =
                           IF DelimiterIn(buf) THEN <<Terminator>>
                           ELSE IF Suppress THEN <<>>
                           ELSE buf \o <<Terminator>>

\* With the empty Ranges and without suppress, a line with delimiters has
\* left an empty row and a line without has gone through.
C14_Witness ==
    /\ pc = "returned"
    /\ ranges = <<>>
    /\ FieldsMode /\ ~Suppress
    /\ Len(log) = 2
    /\ DelimiterIn(log[1].buf)
    /\ log[2].buf # <<>>
    /\ stdout = <<Terminator>> \o log[2].buf \o <<Terminator>>

\* The input with a line delimiter after its last line, if it had none.
Terminated(data, t) == IF data = <<>> \/ Last(data) = t THEN data ELSE data \o <<t>>

\* C15: the loop reads the lines of the input in their order, each without
\* its line delimiter; every row it writes ends in the one line delimiter it
\* holds; a last line without line delimiter is read like the others, a line
\* delimiter at the end of the input does not make one more line, and the
\* empty input has no line.  In bytes mode every line leaves a row, and with
\* the Ranges of "1-" the output is the input, with a line delimiter after
\* the last line if it had none: the same again when it is the input.
C15_TerminatorNormalised ==
    CutRuns =>
        LET data == files[1].data
            lines == Lines(data, Terminator)
        IN /\ Len(log) <= Len(lines)
           /\ \A i \in 1..Len(log) : log[i].buf = lines[i]
           /\ \A i \in 1..Len(log) :
                log[i].wrote # <<>> =>
                    Last(log[i].wrote) = Terminator /\ Count(log[i].wrote, Terminator) = 1
           /\ (pc = "returned" /\ io_result.kind = "Ok") => Len(log) = Len(lines)
           /\ (pc = "returned" /\ Mode = "Bytes") =>
                /\ io_result.kind = "Ok"
                /\ Count(stdout, Terminator) = NLines(data, Terminator)
                /\ data = <<>> => stdout = <<>>
           /\ (pc = "returned" /\ Mode = "Bytes" /\ ranges = <<ToEnd(0)>>) =>
                /\ stdout = Terminated(data, Terminator)
                /\ Terminated(stdout, Terminator) = stdout

\* Bytes mode with the Ranges of "1-" on two lines, the last of them without
\* line delimiter.
C15_Witness ==
    /\ pc = "returned"
    /\ Mode = "Bytes"
    /\ ranges = <<ToEnd(0)>>
    /\ Len(files[1].data) = 3
    /\ Last(files[1].data) # Terminator
    /\ Len(log) = 2
    /\ Len(stdout) = 4

\* C16: cut_fields_with_char splits a line with k delimiters into k + 1
\* fields, the empty ones kept, which joined by the delimiter are the line;
\* the row holds the m fields the Ranges cover, in their order, and the output
\* delimiter m - 1 times (not at all when m <= 1); with the Ranges of "1-"
\* and the delimiter as output delimiter the row is the line.
C16_SplitAndJoin ==
    (CutRuns /\ Mode = "FieldsChar") =>
        \A i \in 1..Len(log) :
            log[i].fields.some =>
                LET fields == log[i].fields.val
                    chosen == CoveredFields(fields, ranges)
                    m == Len(chosen)
                IN /\ Len(fields) = Count(log[i].buf, ",") + 1
                   /\ AsBytes(Joined(fields, <<args.mode_args.field_delimiter>>)) = log[i].buf
                   /\ log[i].wrote = AsBytes(Joined(chosen, args.mode_args.output_delimiter))
                                       \o <<Terminator>>
                   /\ Len(log[i].wrote) =
                        Len(AsBytes(Concat(chosen)))
                        + (IF m <= 1 THEN 0 ELSE (m - 1) * Len(OutputDelimiter)) + 1
                   /\ (ranges = <<ToEnd(0)>> /\ OutputDelimiter = <<",">>) =>
                        log[i].wrote = log[i].buf \o <<Terminator>>

\* A line of three fields, the first and the last of them empty, all of
\* them selected and joined by an output delimiter of two characters.
C16_Witness ==
    /\ pc = "returned"
    /\ Mode = "FieldsChar"
    /\ Len(log) = 1
    /\ log[1].fields.some
    /\ Len(log[1].fields.val) = 3
    /\ log[1].fields.val[1] = <<>>
    /\ log[1].fields.val[3] = <<>>
    /\ log[1].wrote = <<":", ":", "NUL", ":", ":", "\n">>

\* What the turn of the loop does with the chunk.
RowOf(buf) ==
    CASE Mode = "Bytes" -> BytesRow(buf, Terminator, ranges)
      [] Mode = "Characters" -> CharactersRow(buf, Terminator, ranges)
      [] Mode = "FieldsChar" -> FieldsCharRow(buf, Terminator, args.mode_args, ranges)
      [] Mode = "FieldsRegex" -> FieldsRegexRow(buf, Terminator, args.mode_args, ranges)

\* The lines of the input that are not text.
NotText(lines) == {k \in 1..Len(lines) : ~ValidUtf8(lines[k])}

\* C19: in characters and fields modes the call returns an io::Error of kind
\* InvalidData when a line of the input is not UTF-8; the output then holds
\* the rows of the lines before the first such line, as they are without
\* it, and nothing of that line nor of the lines after it.  When every line
\* is UTF-8, and in bytes mode whatever the input, the call returns Ok.
C19_InvalidLineEndsSource ==
    pc = "returned" =>
        LET lines == Lines(files[1].data, Terminator)
            bad == NotText(lines)
        IN IF Mode = "Bytes" \/ bad = {}
           THEN io_result.kind = "Ok" /\ Len(log) = Len(lines)
           ELSE LET k == CHOOSE n \in bad : \A j \in bad : n <= j IN
                /\ io_result = Err("InvalidData")
                /\ Len(log) = k
                /\ log[k].wrote = <<>>
                /\ stdout = Concat([i \in 1..(k - 1) |-> RowOf(lines[i]).wrote])
                /\ writer = <<>>

\* A row was written for the first line; the second line is not UTF-8.
C19_Witness ==
    /\ pc = "returned"
    /\ Mode = "Characters"
    /\ io_result = Err("InvalidData")
    /\ Len(log) = 2
    /\ stdout = <<"NUL", "\n">>
    /\ log[2].buf = <<"C3">>

\* The arguments were valid and cut has been called.
ArgsValid == pc # "main" /\ result.kind = "Ok"

\* The turns of the loop on the f-th source.
EntriesOf(f) == SelectSeq(log, LAMBDA e : e.file = f)

\* The lines of an opened source that a cut function reads before it
\* returns: those before a read fails, up to the first that is not text.
LinesRead(source) ==
    LET lines == Lines(source.data, Terminator)
        given == IF source.end = "eof" THEN Len(lines) ELSE Count(source.data, Terminator)
        bad == {k \in 1..given : Mode # "Bytes" /\ ~ValidUtf8(lines[k])}
    IN SubSeq(lines, 1, IF bad = {} THEN given
                        ELSE CHOOSE n \in bad : \A j \in bad : n <= j)

\* The rows of a source: those of the lines read from it, one after the other.
RowsOf(source) ==
    IF source.open
    THEN LET lines == LinesRead(source) IN
         Concat([i \in 1..Len(lines) |-> RowOf(lines[i]).wrote])
    ELSE <<>>

\* The f-th source is over: it could not be opened, or its cut function has
\* returned.
Over(f) == f < Len(files) \/ (f = Len(files) /\ pc \in {"files", "exited"})

\* C17: the sources are taken in the order of the arguments and each is read
\* to its end (or to its failure) before the next is opened; what has been
\* written is the rows of the sources in that order; when the program exits
\* every argument has had its turn, whatever happened to those before it, and
\* standard output is the rows of all the sources in the order of the
\* arguments.
C17_SourcesInOrder ==
    ArgsValid =>
        /\ \A i, j \in 1..Len(log) : i <= j => log[i].file <= log[j].file
        /\ stdout \o writer = WrittenUpTo(Len(log))
        /\ \A f \in 1..Len(files) :
              Over(f) =>
                  LET entries == EntriesOf(f) IN
                  IF files[f].open
                  THEN [i \in 1..Len(entries) |-> entries[i].buf] = LinesRead(files[f])
                  ELSE entries = <<>>
        /\ pc = "exited" =>
              /\ Len(files) = Len(args.filenames)
              /\ stdout = Concat([f \in 1..Len(files) |-> RowsOf(files[f])])

\* The first source failed while it was read, after a row; the second was
\* then read to its end and its rows follow that of the first.
C17_Witness ==
    /\ pc = "exited"
    /\ ArgsValid
    /\ Len(files) = 2
    /\ files[1].open /\ files[1].end = "error"
    /\ files[2].open /\ files[2].end = "eof"
    /\ EntriesOf(1) # <<>>
    /\ Len(EntriesOf(2)) = 2
    /\ RowsOf(files[1]) # <<>>
    /\ RowsOf(files[2]) # <<>>
    /\ stdout = RowsOf(files[1]) \o RowsOf(files[2])

\* A source fails: it cannot be opened, a read of it fails, or (characters
\* and fields modes) one of its lines is not UTF-8.
SourceFails(source) ==
    \/ ~source.open
    \/ source.end = "error"
    \/ /\ Mode # "Bytes"
       /\ NotText(Lines(source.data, Terminator)) # {}

\* C18: the exit code is 0 exactly when parse_args returned Ok and every file
\* name was opened and cut without error; it is 1 when some source failed,
\* wherever it is among the arguments.
C18_ExitCode ==
    pc = "exited" =>
        /\ exit_code = 0 <=>
              /\ result.kind = "Ok"
              /\ Len(files) = Len(args.filenames)
              /\ \A f \in 1..Len(files) : ~SourceFails(files[f])
        /\ (result.kind = "Ok" /\ \E f \in 1..Len(files) : SourceFails(files[f])) =>
              exit_code = 1

\* The first of two sources has a line that is not UTF-8, the second was cut
\* without error, and the exit code is 1.
C18_Witness ==
    /\ pc = "exited"
    /\ ArgsValid
    /\ Mode = "Characters"
    /\ Len(files) = 2
    /\ SourceFails(files[1])
    /\ files[1].open /\ files[1].end = "eof"
    /\ ~SourceFails(files[2])
    /\ EntriesOf(2) # <<>>
    /\ exit_code = 1

\* C20: when the arguments are not valid the process exits with code 1, and
\* no source has been opened or read and nothing has been written.
C20_ValidationPrecedesProcessing ==
    (pc = "exited" /\ result.kind # "Ok") =>
        /\ exit_code = 1
        /\ files = <<>>
        /\ log = <<>>
        /\ stdout = <<>>

\* When parse_args returns its Err the process exits with code 1 before any
\* source is opened, and a source is opened only after parse_args returned Ok.
C20_WhenParseArgsReturns ==
    /\ (pc = "exited" /\ result.kind = "Err") =>
          exit_code = 1 /\ files = <<>> /\ log = <<>> /\ stdout = <<>>
    /\ (files # <<>> \/ log # <<>> \/ stdout # <<>> \/ writer # <<>>) => ArgsValid

\* A process ends with code 101 only by the panic of parse_args.
OnlyParseArgsPanics == exit_code = 101 => result.kind = "panic"

(***************************************************************************)
(* The Ranges written back as a text                                       *)
(***************************************************************************)
\* One range in its shortest text: "s+1", "s+1-e+1" or "s+1-".
CanonicalRange(r) ==
    IF r.tag = "ToEnd" THEN Dec(r.start + 1) \o <<"-">>
    ELSE IF r.start = r.end THEN Dec(r.start + 1)
    ELSE Dec(r.start + 1) \o <<"-">> \o Dec(r.end + 1)

\* The ranges in their order, a comma between two of them.
RECURSIVE Canonical(_)
Canonical(rs) ==
    IF rs = <<>> THEN <<>>
    ELSE IF Len(rs) = 1 THEN CanonicalRange(rs[1])
    ELSE CanonicalRange(rs[1]) \o <<",">> \o Canonical(Tail(rs))

\* C21: when parse returns Ok(r) for a text, the parse of the canonical text
\* of r returns Ok of a Ranges structurally equal to r.
C21_CanonicalTextParsesBack ==
    (pc = "parsed" /\ result.kind = "Ok") =>
        ParseOf(Canonical(result.val)).res = Ok(result.val)

\* A text that is not canonical (its ranges out of order and touching, one
\* of them written "n-n") was parsed to one range.
C21_Witness ==
    /\ pc = "parsed"
    /\ result.kind = "Ok"
    /\ text = <<"2", "-", "2", ",", "1">>
    /\ result.val = <<Closed(0, 1)>>
    /\ Canonical(result.val) = <<"1", "-", "2">>

(***************************************************************************)
(* What the claims say of the RangeFilterIterator                          *)
(***************************************************************************)
\* The RangeFilterIterator has been made.
Filtering == pc \in {"filter", "collected", "compared"}

\* s is the start of t.
IsPrefix(s, t) == Len(s) <= Len(t) /\ s = SubSeq(t, 1, Len(s))

\* C22: the items that the RangeFilterIterator returns, collected up to its
\* first None, are the Vec that select returns on the same elements and the
\* same Ranges: the same elements in the same order, whether the Ranges are
\* empty, or start or end beyond the elements.  While they are collected,
\* the items are the first of those that select returns.
C22_FilterSelectsAsSelect ==
    /\ pc = "compared" => selected = OkVec(collected)
    /\ Filtering => IsPrefix(collected, SelectOf(xs, ranges).out)

\* Of two ranges the first lies within the elements and the second starts
\* beyond them.
C22_Witness ==
    /\ pc = "compared"
    /\ Len(xs) = 2
    /\ ranges = <<Closed(0, 0), Closed(2, 2)>>
    /\ collected = <<0>>
    /\ selected = OkVec(<<0>>)

\* C23: the inner iterator having returned None (to the call that follows
\* the last element), no further call of its next() is made and next_index
\* is not advanced; the calls spent on a line are at most its elements and
\* the ranges.
C23_NoRequestAfterExhaustion ==
    Filtering =>
        /\ iter.requested <= Len(xs) + 1
        /\ iter.next_index <= Len(xs) + 1
        /\ iter.requested <= Len(xs) + Len(ranges)

\* When no range starts beyond the end of the elements, the inner iterator
\* is not called again after it has returned None.
C23_WhenRangesStartWithin ==
    (Filtering /\ \A i \in 1..Len(ranges) : ranges[i].start <= Len(xs)) =>
        /\ iter.requested <= Len(xs) + 1
        /\ iter.next_index <= Len(xs) + 1

\* The calls of inner.next() that advance_inner makes grow with the start
\* of the range, whatever the number of elements.
C23_RequestsGrowWithStart ==
    /\ pc = "compared"
    /\ xs = <<>>
    /\ ranges = <<ToEnd(UsizeMax)>>
    /\ iter.requested = UsizeMax + 1

(***************************************************************************)
(* What the claims say of select and of complement, once more              *)
(***************************************************************************)
\* select takes a slice for the i-th range: no range up to it starts at or
\* beyond the end of the input.
SliceTaken(rs, i, len) == \A j \in 1..i : rs[j].start < len

\* The end of the slice that select takes for a range.
SliceEndOf(r, len) == IF r.tag = "Closed" THEN Min(r.end + 1, len) ELSE len

\* C24: on the Ranges of parse and on their complement select returns
\* without a panic, whatever the line: for every slice it takes,
\* start < len and start <= end' <= len, where end' = min(end + 1, len);
\* no end + 1 overflows, every bound of parse being at most usize::MAX - 1;
\* and what reaches beyond the line is left out, nothing else.
C24_SelectIsTotal ==
    (pc = "selected" /\ Len(hist) <= 1) =>
        /\ selected.kind = "ok"
        /\ \A i \in 1..Len(ranges) :
              ranges[i].tag = "Closed" => ~WouldOverflow(ranges[i].end)
        /\ hist = <<>> =>
              \A i \in 1..Len(ranges) :
                 /\ ranges[i].start <= UsizeMax - 1
                 /\ ranges[i].tag = "Closed" => ranges[i].end <= UsizeMax - 1
        /\ \A i \in 1..Len(ranges) :
              SliceTaken(ranges, i, Len(xs)) =>
                  /\ ranges[i].start < Len(xs)
                  /\ ranges[i].start <= SliceEndOf(ranges[i], Len(xs))
                  /\ SliceEndOf(ranges[i], Len(xs)) <= Len(xs)
        /\ selected.out = SelectSeq(xs, LAMBDA x : Covered(ranges, x))

\* A range that ends at the largest bound of parse, beyond the line, has
\* been clipped to the line.
C24_Witness ==
    /\ pc = "selected"
    /\ hist = <<>>
    /\ ranges = <<Closed(1, UsizeMax - 1)>>
    /\ Len(xs) = 2
    /\ selected = OkVec(<<1>>)

\* C25: the complement of Ranges that are sorted, maximally merged and have
\* a ToEnd only in last place is so too: strictly sorted by start, no range
\* touching or overlapping the one before it, s <= e in every Closed(s, e),
\* at most one ToEnd and that one last; and its last range is a ToEnd exactly
\* when the Ranges it was made of have none.
C25_ComplementIsWellFormed ==
    (hist # <<>> /\ WellFormed(hist[Len(hist)])) =>
        /\ WellFormed(ranges)
        /\ \A i \in 1..Len(ranges) : ranges[i].tag = "ToEnd" => i = Len(ranges)
        /\ (ranges # <<>> /\ ranges[Len(ranges)].tag = "ToEnd")
              <=> (\A i \in 1..Len(hist[Len(hist)]) : hist[Len(hist)][i].tag # "ToEnd")

\* The complement of two ranges without a ToEnd: what lies between them,
\* and a ToEnd after the second.
C25_Witness ==
    /\ Len(hist) = 1
    /\ hist[1] = <<Closed(0, 0), Closed(2, 2)>>
    /\ ranges = <<Closed(1, 1), ToEnd(3)>>

(***************************************************************************)
(* What the claims say of the errors of parse                              *)
(***************************************************************************)
\* The first character of s that is no digit, hyphen or separator.
FirstUnrecognized(s) ==
    LET bad == {i \in 1..Len(s) : ~(IsDigit(s[i]) \/ s[i] = "-" \/ IsSeparator(s[i]))}
    IN s[CHOOSE i \in bad : \A j \in bad : i <= j]

\* C26: when a character of the text is none of the digits, '-', ',', space
\* and tab, parse returns Err(LexError(UnrecognizedCharacter(c))), c being the
\* first such character, whatever else is wrong in the text before or after it.
C26_LexingPrecedesParsing ==
    (pc = "parsed" /\ ~LexicallyValid(text)) =>
        result = Err(LexError(UnrecognizedCharacter(FirstUnrecognized(text))))

\* C26 for the texts whose numbers fit usize.
C26_WhenNumbersFit ==
    (pc = "parsed" /\ ~LexicallyValid(text) /\ NumbersFit(text)) =>
        result = Err(LexError(UnrecognizedCharacter(FirstUnrecognized(text))))

\* The tokens that the characters of a group stand for: a Hyphen for a
\* hyphen, a Number for a run of digits.
RECURSIVE TokensFrom(_, _)
TokensFrom(g, i) ==
    IF i > Len(g) THEN <<>>
    ELSE IF g[i] = "-" THEN <<Hyphen>> \o TokensFrom(g, i + 1)
    ELSE LET j == DigitsEnd(g, i) IN
         <<Number(DecimalValue(SubSeq(g, i, j - 1)))>> \o TokensFrom(g, j)

TokensOf(g) == TokensFrom(g, 1)

\* Hyphens and numbers that are none of the shapes N, N-M, -M, N-.
Malformed(g) == g # <<>> /\ ~WellShaped(g)

\* C27: when the first group in error of a text is made of hyphens and
\* numbers in none of the four shapes, parse returns IndecipherableRange
\* with the tokens of that group, and no others.
C27_MalformedGroupIsIndecipherable ==
    (pc = "parsed" /\ LexicallyValid(text)) =>
        \A k \in 1..NGroups(text) :
            (FirstInError(text, k) /\ Malformed(GroupText(text, k)))
                => result = Err(IndecipherableRange(TokensOf(GroupText(text, k))))

\* C27 for the texts whose numbers fit usize.
C27_WhenNumbersFit ==
    (pc = "parsed" /\ LexicallyValid(text) /\ NumbersFit(text)) =>
        \A k \in 1..NGroups(text) :
            (FirstInError(text, k) /\ Malformed(GroupText(text, k)))
                => result = Err(IndecipherableRange(TokensOf(GroupText(text, k))))

\* The second of two groups is "1--" and parse has returned its three tokens.
C27_SecondGroupIndecipherable ==
    /\ pc = "parsed"
    /\ text = <<"2", ",", "1", "-", "-">>
    /\ result = Err(IndecipherableRange(<<Number(1), Hyphen, Hyphen>>))

\* C29: parse returns UnexpectedSeparator for no text: where parse_range
\* stops, the tokens are at their end or the next one is a comma or a blank;
\* and when parse returns an error for a text whose first group in error is
\* empty (a doubled, a leading or a trailing separator, the empty text), the
\* error is IndecipherableRange with no token.
C29_NeverUnexpectedSeparator ==
    pc = "parsed" =>
        /\ ~(result.kind = "Err" /\ result.err.err = "UnexpectedSeparator")
        /\ Scan(text).kind = "Ok" =>
              LET tokens == Scan(text).val IN
              \A i \in 1..(Len(tokens) + 1) :
                  LET j == RangeEnd(tokens, i) IN
                  j > Len(tokens) \/ tokens[j].tok \in {"Comma", "Blank"}
        /\ (result.kind = "Err" /\ LexicallyValid(text)) =>
              \A k \in 1..NGroups(text) :
                  (FirstInError(text, k) /\ GroupText(text, k) = <<>>)
                      => result = Err(IndecipherableRange(<<>>))

\* Two separators next to each other, after a range of three tokens.
C29_Witness ==
    /\ pc = "parsed"
    /\ text = <<"1", "-", "2", ",", ",">>
    /\ cuts = <<CutClosed(0, 1)>>
    /\ result = Err(IndecipherableRange(<<>>))

(***************************************************************************)
(* What the claims say of the order of MergedRanges                        *)
(***************************************************************************)
AtMost(o) == o \in {"Less", "Equal"}

\* C28: cmp orders MergedRanges by start first; of two Closed with the same
\* start the one with the smaller end is Less; a Closed is Less than the
\* ToEnd of the same start; cmp(b, a) is the reverse of cmp(a, b); cmp is
\* transitive; and cmp(a, b) is Equal exactly when a == b, which is when a
\* and b are the same variant with the same bounds.
C28_CmpIsTotalOrder ==
    pc = "ordered" =>
        LET a == operands[1]
            b == operands[2]
            c == operands[3]
        IN /\ a.start < b.start => ordering.ab = "Less"
           /\ a.start > b.start => ordering.ab = "Greater"
           /\ (a.tag = "Closed" /\ b.tag = "Closed" /\ a.start = b.start) =>
                 (ordering.ab = "Less" <=> a.end < b.end)
           /\ (a.tag = "Closed" /\ b.tag = "ToEnd" /\ a.start = b.start) =>
                 ordering.ab = "Less"
           /\ ordering.ab \in {"Less", "Equal", "Greater"}
           /\ ordering.ab = "Less" <=> ordering.ba = "Greater"
           /\ ordering.ab = "Equal" <=> ordering.ba = "Equal"
           /\ ordering.aa = "Equal"
           /\ (AtMost(ordering.ab) /\ AtMost(ordering.bc)) => AtMost(ordering.ac)
           /\ (ordering.ab = "Less" /\ ordering.bc = "Less") => ordering.ac = "Less"
           /\ ordering.ab = "Equal" <=> a = b
           /\ ordering.eq <=> a = b

\* A Closed, the ToEnd of the same start and a Closed of a later start, in
\* their order.
C28_Witness ==
    /\ pc = "ordered"
    /\ operands = <<Closed(1, 2), ToEnd(1), Closed(2, 2)>>
    /\ ordering.ab = "Less"
    /\ ordering.bc = "Less"
    /\ ordering.ac = "Less"
    /\ ~ordering.eq

(***************************************************************************)
(* What the claims say of the lines, one after the other                   *)
(***************************************************************************)
\* What the turns of the loop have made of the lines so far.
EachLineOnItsOwn ==
    CutRuns =>
        LET lines == Lines(files[1].data, Terminator) IN
        /\ pc = "reading" => buffer = <<>>
        /\ Len(log) <= Len(lines)
        /\ \A i \in 1..Len(log) : log[i].wrote = RowOf(lines[i]).wrote
        /\ stdout \o writer = WrittenUpTo(Len(log))

\* C30: a turn of the loop leaves the Ranges and the rest of the
\* configuration as they are, and buf is empty when a turn begins; the row of
\* a line is what the cut of that line alone gives under the configuration,
\* so that no byte of an earlier line is in it, and the rows are written in
\* the order of their lines.
C30_LinesAreIndependent ==
    /\ []EachLineOnItsOwn
    /\ [][ranges' = ranges /\ args' = args]_vars

\* Two lines that differ, cut one after the other in bytes mode.
C30_Witness ==
    /\ pc = "returned"
    /\ Mode = "Bytes"
    /\ ranges = <<Closed(0, 0)>>
    /\ files[1].data = <<",", "\n", "NUL">>
    /\ Terminator = "\n"
    /\ Len(log) = 2
    /\ stdout = <<",", "\n", "NUL", "\n">>

====
